---- MODULE Spec2Model ----
(***************************************************************************)
(* Model of server.py: a Flask backend with one process-wide progress      *)
(* record (DownloadProgress), the /download, /progress, /cancel and        *)
(* /reset-progress handlers that share it, and the stateless handlers      *)
(* /formats, /get-transcript and /summarize.                               *)
(*                                                                         *)
(* Python values of mixed type are kept as tagged tuples, so that 0 and    *)
(* "0 KiB/s" are different values that can be compared.                    *)
(***************************************************************************)
EXTENDS Integers, Sequences, FiniteSets, TLC

VARIABLES
    progress,     \* download_progress.progress
    speed,        \* download_progress.speed
    eta,          \* download_progress.eta
    status,       \* download_progress.status
    process,      \* download_progress.process
    serverAlive,  \* the serving OS process is running
    pc,           \* per /download request: where its handler is
    is_audio,     \* per /download request: local is_audio
    ffmpeg,       \* per /download request: state of the ffmpeg child it spawned
    dlResp,       \* per /download request: the response it returned
    req,          \* input of the stateless handler under check
    resp          \* latest response of a handler other than /download

vars == <<progress, speed, eta, status, process, serverAlive,
          pc, is_audio, ffmpeg, dlResp, req, resp>>

record == <<progress, speed, eta, status, process>>

----------------------------------------------------------------------------
(* Python values *)

NoneVal == <<"none">>
Str(s) == <<"str", s>>
Num(n) == <<"int", n>>

\* Python truthiness of the values used here
Truthy(v) == v # NoneVal /\ v # Str("") /\ v # Num(0) /\ v # <<>>

\* JSON bodies are records; no response has been sent while code is 0
NoBody == [none |-> TRUE]
NoResp == [route |-> "none", code |-> 0, body |-> NoBody]

\* what a view function returns: None, or a body with a status code
ReturnNone == [returned |-> FALSE, code |-> 0, body |-> NoBody]
Return(code, body) == [returned |-> TRUE, code |-> code, body |-> body]

\* Flask turns a view's return value into a response; None is a TypeError,
\* answered with 500 Internal Server Error
FlaskResponse(route, ret) ==
    IF ~ret.returned
    THEN [route |-> route, code |-> 500, body |-> [error |-> "Internal Server Error"]]
    ELSE [route |-> route, code |-> ret.code, body |-> ret.body]

----------------------------------------------------------------------------
(* Bounds *)

MaxDownloads == 2
MaxSelectorLen == 2
MaxFormats == 3

Downloads == 1..MaxDownloads

----------------------------------------------------------------------------
(* The progress record *)

\* DownloadProgress.__init__
InitialRecord ==
    [progress |-> 0, speed |-> Str("0 KiB/s"), eta |-> Str("00:00"),
     status |-> "starting", process |-> NoneVal]

\* psutil.Process() with no pid: a handle on the calling process, the server
ServerHandle == <<"proc", "server">>

\* the polled fields, as /progress returns them
Polled == [progress |-> progress, speed |-> speed, eta |-> eta, status |-> status]

----------------------------------------------------------------------------
(* Format selector of /download.  A selector is a sequence of tokens; the   *)
(* token "audio_" is the only place the substring audio_ occurs.            *)

AudioPrefix == "audio_"

SelectorTokens == {"audio_", "140", "4k", "1440p", "1080p", "720p", "480p", "best"}

\* the formatId values a client may send: token sequences, "" included
Selectors == UNION {[1..n -> SelectorTokens] : n \in 0..MaxSelectorLen}

\* str.startswith('audio_')
StartsWithAudio(quality) == Len(quality) >= 1 /\ quality[1] = AudioPrefix

\* str.replace('audio_', ''): drops every occurrence
RECURSIVE ReplaceAudio(_)
ReplaceAudio(quality) ==
    IF quality = <<>> THEN <<>>
    ELSE IF Head(quality) = AudioPrefix THEN ReplaceAudio(Tail(quality))
         ELSE <<Head(quality)>> \o ReplaceAudio(Tail(quality))

format_map ==
    [q \in {"4k", "1440p", "1080p", "720p", "480p"} |->
        CASE q = "4k"    -> "bestvideo[height<=2160][ext=webm]+bestaudio[ext=webm]/best[height<=2160]"
          [] q = "1440p" -> "bestvideo[height<=1440][ext=webm]+bestaudio[ext=webm]/best[height<=1440]"
          [] q = "1080p" -> "bestvideo[height<=1080][ext=webm]+bestaudio[ext=webm]/best[height<=1080]"
          [] q = "720p"  -> "bestvideo[height=720][ext=webm]+bestaudio[ext=webm]/best[height=720]"
          [] q = "480p"  -> "bestvideo[height=480][ext=webm]+bestaudio[ext=webm]/best[height=480]"]

\* format_map.get(quality, format_map['1080p'])
FormatMapGet(quality) ==
    IF Len(quality) = 1 /\ quality[1] \in DOMAIN format_map
    THEN format_map[quality[1]] ELSE format_map["1080p"]

\* the 'format' option handed to the download collaborator
FormatStr(quality) ==
    IF StartsWithAudio(quality) THEN ReplaceAudio(quality)
    ELSE <<FormatMapGet(quality)>>

Mimetype(audio) == IF audio THEN "audio/mp3" ELSE "video/mp4"

----------------------------------------------------------------------------
(* progress_hook *)

HookStatuses == {"downloading", "finished", "error"}
HookTotals == {0, 4}
HookDownloaded == {0, 2, 4}
HookSpeeds == {Num(1024)}
HookEtas == {Num(3)}

HookInputs ==
    [status : HookStatuses, total_bytes : HookTotals,
     total_bytes_estimate : HookTotals, downloaded_bytes : HookDownloaded,
     speed : HookSpeeds, eta : HookEtas]

\* d.get('total_bytes') or d.get('total_bytes_estimate', 0)
TotalBytes(d) == IF d.total_bytes # 0 THEN d.total_bytes ELSE d.total_bytes_estimate

progress_hook(d) ==
    IF d.status = "downloading" THEN
        IF TotalBytes(d) > 0 THEN
            /\ progress' = (d.downloaded_bytes * 100) \div TotalBytes(d)
            /\ speed' = d.speed
            /\ eta' = d.eta
            /\ UNCHANGED status
        ELSE UNCHANGED <<progress, speed, eta, status>>
    ELSE IF d.status = "finished" THEN
        /\ progress' = 100
        /\ status' = "finished"
        /\ UNCHANGED <<speed, eta>>
    ELSE UNCHANGED <<progress, speed, eta, status>>

----------------------------------------------------------------------------
(* /download *)

Blocking(d) == pc[d] \in {"downloading", "postprocessing"}

\* variant of DownloadStart that forgets to record the handle
DownloadStart_NoHandle(d) ==
    /\ serverAlive
    /\ pc[d] = "idle"
    /\ \E quality \in Selectors :
        /\ is_audio' = [is_audio EXCEPT ![d] = StartsWithAudio(quality)]
        /\ pc' = [pc EXCEPT ![d] = "downloading"]
    /\ UNCHANGED <<progress, speed, eta, status, process, serverAlive, ffmpeg, dlResp, req, resp>>

\* lines 72-135: options are built and the handle is recorded
DownloadStart(d) ==
    /\ serverAlive
    /\ pc[d] = "idle"
    /\ \E quality \in Selectors :
        /\ is_audio' = [is_audio EXCEPT ![d] = StartsWithAudio(quality)]
        /\ pc' = [pc EXCEPT ![d] = "downloading"]
        /\ process' = ServerHandle
    /\ UNCHANGED <<progress, speed, eta, status, serverAlive, ffmpeg, dlResp, req, resp>>

\* formatId absent: quality is None and line 87 raises; lines 175-181
DownloadNoFormat(d) ==
    /\ serverAlive
    /\ pc[d] = "idle"
    /\ pc' = [pc EXCEPT ![d] = "done"]
    /\ process' = NoneVal
    /\ dlResp' = [dlResp EXCEPT ![d] = [code |-> 500, mimetype |-> "application/json"]]
    /\ UNCHANGED <<progress, speed, eta, status, serverAlive, is_audio, ffmpeg, req, resp>>

\* the collaborator calls the hook from inside extract_info (line 136)
ProgressHook(d) ==
    /\ serverAlive
    /\ pc[d] = "downloading"
    /\ \E info \in HookInputs : progress_hook(info)
    /\ UNCHANGED <<process, serverAlive, pc, is_audio, ffmpeg, dlResp, req, resp>>

\* the collaborator spawns ffmpeg for the postprocessor (still line 136)
Postprocess(d) ==
    /\ serverAlive
    /\ pc[d] = "downloading"
    /\ pc' = [pc EXCEPT ![d] = "postprocessing"]
    /\ ffmpeg' = [ffmpeg EXCEPT ![d] = "running"]
    /\ UNCHANGED <<progress, speed, eta, status, process, serverAlive, is_audio, dlResp, req, resp>>

\* lines 137-167, then the finally of line 173
DownloadFinish(d) ==
    /\ serverAlive
    /\ Blocking(d)
    /\ ffmpeg[d] # "killed"
    /\ pc' = [pc EXCEPT ![d] = "done"]
    /\ ffmpeg' = [ffmpeg EXCEPT ![d] = "none"]
    /\ process' = NoneVal
    /\ dlResp' = [dlResp EXCEPT ![d] = [code |-> 200, mimetype |-> Mimetype(is_audio[d])]]
    /\ UNCHANGED <<progress, speed, eta, status, serverAlive, is_audio, req, resp>>

\* extract_info raises or the file is missing: lines 169-181
DownloadFail(d) ==
    /\ serverAlive
    /\ Blocking(d)
    /\ pc' = [pc EXCEPT ![d] = "done"]
    /\ ffmpeg' = [ffmpeg EXCEPT ![d] = "none"]
    /\ process' = NoneVal
    /\ dlResp' = [dlResp EXCEPT ![d] = [code |-> 500, mimetype |-> "application/json"]]
    /\ UNCHANGED <<progress, speed, eta, status, serverAlive, is_audio, req, resp>>

----------------------------------------------------------------------------
(* /progress, /reset-progress *)

get_progress ==
    /\ serverAlive
    /\ resp' = FlaskResponse("progress", Return(200, Polled))
    /\ UNCHANGED <<progress, speed, eta, status, process, serverAlive,
                   pc, is_audio, ffmpeg, dlResp, req>>

reset_progress ==
    /\ serverAlive
    /\ progress' = 0
    /\ speed' = Num(0)
    /\ eta' = Num(0)
    /\ status' = "starting"
    /\ resp' = FlaskResponse("reset-progress", Return(200, [status |-> "reset"]))
    /\ UNCHANGED <<process, serverAlive, pc, is_audio, ffmpeg, dlResp, req>>

----------------------------------------------------------------------------
(* /cancel *)

\* the children of the server process: the ffmpeg processes now running
Children == {d \in Downloads : ffmpeg[d] = "running"}

\* line 313 false: the function falls off its end and returns None
CancelNoProcess ==
    /\ serverAlive
    /\ ~Truthy(process)
    /\ resp' = FlaskResponse("cancel", ReturnNone)
    /\ UNCHANGED <<progress, speed, eta, status, process, serverAlive,
                   pc, is_audio, ffmpeg, dlResp, req>>

\* lines 315-318 succeed: every child is killed, then the process the handle
\* designates, which is the server itself; lines 321-326 are never run
CancelKill ==
    /\ serverAlive
    /\ Truthy(process)
    /\ ffmpeg' = [d \in Downloads |-> IF d \in Children THEN "killed" ELSE ffmpeg[d]]
    /\ serverAlive' = FALSE
    /\ resp' = [route |-> "cancel", code |-> 0, body |-> NoBody]
    /\ UNCHANGED <<progress, speed, eta, status, process, pc, is_audio, dlResp, req>>

\* variant of CancelKillFails that resets the record before it kills
CancelKillFails_ResetFirst ==
    /\ serverAlive
    /\ Truthy(process)
    /\ \E killed \in SUBSET Children :
        ffmpeg' = [d \in Downloads |-> IF d \in killed THEN "killed" ELSE ffmpeg[d]]
    /\ process' = NoneVal
    /\ progress' = 0
    /\ status' = "cancelled"
    /\ resp' = FlaskResponse("cancel", Return(500, [error |-> "kill failed"]))
    /\ UNCHANGED <<speed, eta, serverAlive, pc, is_audio, dlResp, req>>

\* one of lines 315-318 raises after the children in killed were killed
CancelKillFails ==
    /\ serverAlive
    /\ Truthy(process)
    /\ \E killed \in SUBSET Children :
        ffmpeg' = [d \in Downloads |-> IF d \in killed THEN "killed" ELSE ffmpeg[d]]
    /\ resp' = FlaskResponse("cancel", Return(500, [error |-> "kill failed"]))
    /\ UNCHANGED <<progress, speed, eta, status, process, serverAlive,
                   pc, is_audio, dlResp, req>>

----------------------------------------------------------------------------
(* The server with its shared progress record *)

Init ==
    /\ progress = InitialRecord.progress
    /\ speed = InitialRecord.speed
    /\ eta = InitialRecord.eta
    /\ status = InitialRecord.status
    /\ process = InitialRecord.process
    /\ serverAlive = TRUE
    /\ pc = [d \in Downloads |-> "idle"]
    /\ is_audio = [d \in Downloads |-> FALSE]
    /\ ffmpeg = [d \in Downloads |-> "none"]
    /\ dlResp = [d \in Downloads |-> [code |-> 0, mimetype |-> "none"]]
    /\ req = NoneVal
    /\ resp = NoResp

Next ==
    \/ \E d \in Downloads : DownloadStart(d)
    \/ \E d \in Downloads : DownloadNoFormat(d)
    \/ \E d \in Downloads : ProgressHook(d)
    \/ \E d \in Downloads : Postprocess(d)
    \/ \E d \in Downloads : DownloadFinish(d)
    \/ \E d \in Downloads : DownloadFail(d)
    \/ get_progress
    \/ reset_progress
    \/ CancelNoProcess
    \/ CancelKill
    \/ CancelKillFails

Spec == Init /\ [][Next]_vars

----------------------------------------------------------------------------
(* Claims about the progress record, /cancel and /download *)

\* C1: a /cancel request made while no process handle is recorded is
\* answered with a non-error response (no 5xx, no unhandled exception).
C1_CancelIdleNoError ==
    [][CancelNoProcess => (resp'.route = "cancel" /\ resp'.code \in 200..499)]_vars

DefaultPolled ==
    [progress |-> InitialRecord.progress, speed |-> InitialRecord.speed,
     eta |-> InitialRecord.eta, status |-> InitialRecord.status]

\* C2: right after /reset-progress the polled fields are the start-up
\* defaults: progress 0, status "starting", speed and eta as at startup.
C2_ResetRestoresDefaults ==
    [][reset_progress => Polled' = DefaultPolled]_vars

\* C3: /cancel with a handle recorded kills the designated process and its
\* children, and the server survives to clear the handle, set progress 0 and
\* status "cancelled", and answer {status: "cancelled"}.
C3_CancelKillsThenResets ==
    [][CancelKill =>
        /\ serverAlive'
        /\ \A d \in Downloads : ffmpeg'[d] # "running"
        /\ process' = NoneVal
        /\ progress' = 0
        /\ status' = "cancelled"
        /\ resp' = FlaskResponse("cancel", Return(200, [status |-> "cancelled"]))]_vars

\* C4: when a kill fails during /cancel the answer is 500 with an error body
\* and the progress record is what it was before the request.
C4_KillFailureLeavesRecord ==
    [][CancelKillFails =>
        /\ resp'.route = "cancel"
        /\ resp'.code = 500
        /\ DOMAIN resp'.body = {"error"}
        /\ record' = record]_vars

\* C4 witness: a failed cancel was answered while a handle is recorded and a
\* hook has already moved the record away from its defaults.
C4_Witness ==
    /\ resp = [route |-> "cancel", code |-> 500, body |-> [error |-> "kill failed"]]
    /\ Truthy(process)
    /\ status = "finished"
    /\ \E d \in Downloads : ffmpeg[d] = "killed"

SomeBlocking == \E d \in Downloads : Blocking(d)

\* C10 as stated: whenever a download is inside its blocking call the record
\* holds a handle, and a download that ends never clears the handle while
\* another one is still in flight.
C10_HandleWhileInFlight ==
    /\ [](SomeBlocking => Truthy(process))
    /\ [][\A d \in Downloads :
            (Blocking(d) /\ pc'[d] = "done" /\ \E e \in Downloads \ {d} : Blocking(e))
                => process' = process]_vars

\* C10 amended: a download records a handle as it enters its blocking call;
\* the handle is emptied only when a /download request ends, and every
\* download that finishes or fails empties it, also while another download
\* is still in flight.
C10_HandleUntilSomeDownloadEnds ==
    [][/\ \A d \in Downloads :
            (pc[d] = "idle" /\ pc'[d] = "downloading") => Truthy(process')
       /\ (Truthy(process) /\ ~Truthy(process')) =>
            \E d \in Downloads : pc[d] # "done" /\ pc'[d] = "done"
       /\ \A d \in Downloads :
            (Blocking(d) /\ pc'[d] = "done") => ~Truthy(process')]_vars

\* C10 witness: one download has ended and emptied the handle while another
\* is still inside its blocking call.
C10_Witness ==
    \E d, e \in Downloads :
        /\ pc[d] = "done" /\ dlResp[d].code = 200
        /\ Blocking(e)
        /\ ~Truthy(process)

----------------------------------------------------------------------------
(* The stateless handlers are checked one request at a time: req is the     *)
(* request with what the collaborators will answer, resp the response.      *)

ServerIdle ==
    /\ progress = InitialRecord.progress
    /\ speed = InitialRecord.speed
    /\ eta = InitialRecord.eta
    /\ status = InitialRecord.status
    /\ process = InitialRecord.process
    /\ serverAlive = TRUE
    /\ pc = [d \in Downloads |-> "idle"]
    /\ is_audio = [d \in Downloads |-> FALSE]
    /\ ffmpeg = [d \in Downloads |-> "none"]
    /\ dlResp = [d \in Downloads |-> [code |-> 0, mimetype |-> "none"]]

serverVars == <<progress, speed, eta, status, process, serverAlive,
                pc, is_audio, ffmpeg, dlResp>>

----------------------------------------------------------------------------
(* /download, the choice of path and format string (lines 86-131, 159-167) *)

DownloadOptions(quality) ==
    IF StartsWithAudio(quality)
    THEN [path |-> "audio", format |-> FormatStr(quality),
          postprocessor |-> "FFmpegExtractAudio"]
    ELSE [path |-> "video", format |-> FormatStr(quality),
          postprocessor |-> "FFmpegVideoRemuxer"]

\* one /download request from its selector to its response; the collaborator
\* either produces the file or raises
DownloadRequest ==
    /\ resp = NoResp
    /\ \/ resp' = [route |-> "download", code |-> 200,
                   body |-> [options |-> DownloadOptions(req.quality),
                             mimetype |-> Mimetype(StartsWithAudio(req.quality))]]
       \/ resp' = [route |-> "download", code |-> 500,
                   body |-> [options |-> DownloadOptions(req.quality),
                             mimetype |-> "application/json"]]
    /\ UNCHANGED <<serverVars, req>>

InitSelect ==
    /\ ServerIdle
    /\ req \in [quality : Selectors]
    /\ resp = NoResp

SpecSelect == InitSelect /\ [][DownloadRequest]_vars

\* C8: an "audio_" selector takes the audio path with the remainder as format
\* string and a successful response is audio/mp3; any other selector takes
\* the video path, a recognized token with its own format string and every
\* other token with the 1080p one.
C8_SelectorRouting ==
    resp.route = "download" =>
        LET q == req.quality
            o == resp.body.options
        IN  IF StartsWithAudio(q)
            THEN /\ o.path = "audio"
                 /\ o.format = Tail(q)
                 /\ (resp.code = 200 => resp.body.mimetype = "audio/mp3")
            ELSE /\ o.path = "video"
                 /\ \A t \in DOMAIN format_map :
                        q = <<t>> => o.format = <<format_map[t]>>
                 /\ (\A t \in DOMAIN format_map : q # <<t>>)
                        => o.format = <<format_map["1080p"]>>

----------------------------------------------------------------------------
(* /formats *)

\* filesize None, as the extraction collaborator reports an unknown size
NoSize == -1

Heights == {0, 360, 720, 1080}
FileSizes == {NoSize, 1, 2}
Abrs == {0, 64, 128, 256, 320}

\* streams of info['formats']: height 0 and abr 0 stand for an absent value
VideoStreams ==
    [vcodec : {"vp9"}, acodec : {"none"}, height : Heights,
     filesize : FileSizes, abr : {0}, protocol : {"https"}]
AudioStreams ==
    [vcodec : {"none"}, acodec : {"opus"}, height : {0},
     filesize : {1}, abr : Abrs, protocol : {"https"}]
    \cup
    [vcodec : {"none"}, acodec : {"opus"}, height : {0},
     filesize : {1}, abr : {128}, protocol : {"http_dash_segments"}]
MuxedStreams ==
    [vcodec : {"avc1"}, acodec : {"mp4a"}, height : {360},
     filesize : {1}, abr : {0}, protocol : {"https"}]
Streams == VideoStreams \cup AudioStreams \cup MuxedStreams

FormatLists == UNION {[1..n -> Streams] : n \in 0..MaxFormats}

\* any(p in protocol for p in ['dash', 'http_dash_segments'])
HasDash(protocol) == protocol \in {"dash", "http_dash_segments"}

\* lines 210-233 for formats[i..]; format_info maps a height to the stream
\* kept for it, "TypeError" is the comparison of line 215 meeting a None
RECURSIVE ScanFormats(_, _, _, _)
ScanFormats(formats, i, format_info, audio_formats) ==
    IF i > Len(formats)
    THEN [error |-> FALSE, format_info |-> format_info, audio_formats |-> audio_formats]
    ELSE
        LET f == formats[i] IN
        IF f.vcodec # "none" /\ f.acodec = "none" THEN
            IF f.height > 0 THEN
                IF f.height \notin DOMAIN format_info
                THEN ScanFormats(formats, i + 1,
                        [h \in DOMAIN format_info \cup {f.height} |->
                            IF h = f.height
                            THEN [format_id |-> i, vcodec |-> f.vcodec, filesize |-> f.filesize]
                            ELSE format_info[h]],
                        audio_formats)
                ELSE IF f.filesize = NoSize \/ format_info[f.height].filesize = NoSize
                THEN [error |-> TRUE, format_info |-> format_info, audio_formats |-> audio_formats]
                ELSE IF f.filesize > format_info[f.height].filesize
                THEN ScanFormats(formats, i + 1,
                        [format_info EXCEPT ![f.height] =
                            [format_id |-> i, vcodec |-> f.vcodec, filesize |-> f.filesize]],
                        audio_formats)
                ELSE ScanFormats(formats, i + 1, format_info, audio_formats)
            ELSE ScanFormats(formats, i + 1, format_info, audio_formats)
        ELSE IF f.vcodec = "none" /\ f.acodec # "none" THEN
            IF f.abr # 0 /\ ~HasDash(f.protocol)
            THEN ScanFormats(formats, i + 1, format_info,
                    Append(audio_formats,
                        [format_id |-> i, abr |-> f.abr, acodec |-> f.acodec]))
            ELSE ScanFormats(formats, i + 1, format_info, audio_formats)
        ELSE ScanFormats(formats, i + 1, format_info, audio_formats)

resolution_map ==
    [h \in {2160, 1440, 1080, 720, 480} |->
        CASE h = 2160 -> [id |-> "4k", label |-> "4K (2160p)"]
          [] h = 1440 -> [id |-> "1440p", label |-> "QHD (1440p)"]
          [] h = 1080 -> [id |-> "1080p", label |-> "Full HD (1080p)"]
          [] h = 720  -> [id |-> "720p", label |-> "HD (720p)"]
          [] h = 480  -> [id |-> "480p", label |-> "SD (480p)"]]

Max(S) == CHOOSE x \in S : \A y \in S : y <= x
Min(S) == CHOOSE x \in S : \A y \in S : x <= y

\* variant of SortedReverse that sorts ascending
RECURSIVE SortedAscending(_)
SortedAscending(S) ==
    IF S = {} THEN <<>> ELSE <<Min(S)>> \o SortedAscending(S \ {Min(S)})

\* sorted(keys, reverse=True)
RECURSIVE SortedReverse(_)
SortedReverse(S) ==
    IF S = {} THEN <<>> ELSE <<Max(S)>> \o SortedReverse(S \ {Max(S)})

\* lines 247-256 for the heights of hs
RECURSIVE VideoOptions(_, _)
VideoOptions(hs, format_info) ==
    IF hs = <<>> THEN <<>>
    ELSE LET height == Head(hs) IN
         (IF height \in DOMAIN resolution_map
          THEN <<[formatId |-> resolution_map[height].id, extension |-> "mp4",
                  quality |-> <<height, "p">>, label |-> resolution_map[height].label,
                  vcodec |-> format_info[height].vcodec, type |-> "video"]>>
          ELSE <<>>)
         \o VideoOptions(Tail(hs), format_info)

\* list.sort(key=abr, reverse=True): stable, highest bitrate first
RECURSIVE SortByAbrReverse(_)
SortByAbrReverse(audio_formats) ==
    IF audio_formats = <<>> THEN <<>>
    ELSE LET n == Len(audio_formats)
             sorted == SortByAbrReverse(SubSeq(audio_formats, 1, n - 1))
             a == audio_formats[n]
             k == Cardinality({j \in 1..Len(sorted) : sorted[j].abr >= a.abr})
         IN  SubSeq(sorted, 1, k) \o <<a>> \o SubSeq(sorted, k + 1, Len(sorted))

\* lines 270-293 for the sorted audio streams
RECURSIVE AudioOptions(_, _)
AudioOptions(audio_formats, added_qualities) ==
    IF audio_formats = <<>> THEN <<>>
    ELSE
        LET audio == Head(audio_formats)
            abr == audio.abr
            quality_key ==
                IF abr >= 256 /\ "high" \notin added_qualities THEN "high"
                ELSE IF abr >= 128 /\ "medium" \notin added_qualities THEN "medium"
                ELSE IF "low" \notin added_qualities THEN "low"
                ELSE "skip"
            quality_label ==
                CASE quality_key = "high" -> "High Quality"
                  [] quality_key = "medium" -> "Medium Quality"
                  [] OTHER -> "Low Quality"
        IN  IF quality_key = "skip"
            THEN AudioOptions(Tail(audio_formats), added_qualities)
            ELSE <<[formatId |-> <<"audio_", audio.format_id>>, extension |-> "mp3",
                    quality |-> <<abr, "kbps">>,
                    label |-> <<"Audio - ", quality_label, abr, "kbps">>,
                    type |-> "audio", codec |-> audio.acodec]>>
                 \o AudioOptions(Tail(audio_formats), added_qualities \cup {quality_key})

\* the view function: its return value for a request
get_formats(request) ==
    IF ~request.videoId
    THEN Return(400, [error |-> "No video ID provided"])
    ELSE IF request.extractFails
    THEN Return(400, [error |-> "extract_info"])
    ELSE LET scan == ScanFormats(request.formats, 1, <<>>, <<>>) IN
         IF scan.error
         THEN Return(400, [error |-> "TypeError"])
         ELSE Return(200, [list |->
                VideoOptions(SortedReverse(DOMAIN scan.format_info), scan.format_info)
                \o AudioOptions(SortByAbrReverse(scan.audio_formats), {})])

FormatsRequest ==
    /\ resp = NoResp
    /\ resp' = FlaskResponse("formats", get_formats(req))
    /\ UNCHANGED <<serverVars, req>>

InitFormats ==
    /\ ServerIdle
    /\ req \in [videoId : BOOLEAN, extractFails : BOOLEAN, formats : FormatLists]
    /\ (~req.videoId \/ req.extractFails) => req.formats = <<>>
    /\ resp = NoResp

SpecFormats == InitFormats /\ [][FormatsRequest]_vars

Bucket(abr) == IF abr >= 256 THEN "high" ELSE IF abr >= 128 THEN "medium" ELSE "low"

BucketLabel(b) ==
    CASE b = "high" -> "High Quality"
      [] b = "medium" -> "Medium Quality"
      [] OTHER -> "Low Quality"

FormatsAnswered == resp.route = "formats" /\ resp.code = 200

\* C6: the audio entries of /formats hold at most one entry per quality
\* bucket, the bucket being fixed by the bitrate (high >= 256, medium >= 128,
\* low otherwise): no two entries have bitrates in the same bucket and each
\* entry is labelled with the bucket of its bitrate.
C6_OneAudioPerBucket ==
    FormatsAnswered =>
        LET o == resp.body.list
            audio == {i \in 1..Len(o) : o[i].type = "audio"}
        IN  /\ \A i, j \in audio :
                i # j => Bucket(o[i].quality[1]) # Bucket(o[j].quality[1])
            /\ \A i \in audio : o[i].label[2] = BucketLabel(Bucket(o[i].quality[1]))

\* C9: the video entries of /formats are in strictly descending resolution
\* order, at most one per recognized tier, none for an unrecognized height,
\* and all of them precede the audio entries.
C9_VideoEntriesOrdered ==
    FormatsAnswered =>
        LET o == resp.body.list
            video == {i \in 1..Len(o) : o[i].type = "video"}
        IN  /\ \A i, j \in video : i < j => o[i].quality[1] > o[j].quality[1]
            /\ \A i, j \in video : i # j => o[i].formatId # o[j].formatId
            /\ \A i \in video :
                /\ o[i].quality[1] \in DOMAIN resolution_map
                /\ o[i].formatId = resolution_map[o[i].quality[1]].id
            /\ \A i \in video : \A j \in 1..Len(o) : j < i => j \in video

\* C9 witness: the collaborator listed an audio stream, then 720p, then
\* 1080p, and the answer holds two video entries and an audio entry.
C9_Witness ==
    /\ FormatsAnswered
    /\ Len(req.formats) >= 3
    /\ req.formats[1].vcodec = "none" /\ req.formats[1].abr = 128
    /\ req.formats[2].height = 720
    /\ req.formats[3].height = 1080
    /\ Len(resp.body.list) = 3
    /\ resp.body.list[2].type = "video"
    /\ resp.body.list[3].type = "audio"

----------------------------------------------------------------------------
(* /get-transcript *)

Languages == {"en", "hi", "fr"}

LanguageName(code) ==
    CASE code = "en" -> "English"
      [] code = "hi" -> "Hindi"
      [] OTHER -> "French"

\* a failed lookup or translation of the transcript collaborator
NotFound == [found |-> FALSE]

Transcript(code, generated, source) ==
    [found |-> TRUE, language_code |-> code, language |-> LanguageName(code),
     is_generated |-> generated, translated_from |-> source]

\* TranscriptList.find_transcript: manually created first, then generated
find_transcript(request, code) ==
    IF code \in request.manual THEN Transcript(code, FALSE, "none")
    ELSE IF code \in request.generated THEN Transcript(code, TRUE, "none")
    ELSE NotFound

\* TranscriptList.find_generated_transcript
find_generated_transcript(request, code) ==
    IF code \in request.generated THEN Transcript(code, TRUE, "none") ELSE NotFound

\* Transcript.translate
translate(request, transcript, code) ==
    IF code \in request.translation_languages
    THEN Transcript(code, transcript.is_generated, transcript.language_code)
    ELSE NotFound

\* variant of FallbackTranscript that returns the auxiliary transcript untranslated
FallbackTranscript_Untranslated(request, language) ==
    find_generated_transcript(request, "hi")

\* lines 419-421: the auxiliary-language transcript, translated unless it is
\* the requested language
FallbackTranscript(request, language) ==
    LET transcript == find_generated_transcript(request, "hi") IN
    IF ~transcript.found THEN NotFound
    ELSE IF language # "hi" THEN translate(request, transcript, language)
    ELSE transcript

\* lines 410-421
SelectTranscript(request, language) ==
    LET manual == find_transcript(request, language) IN
    IF manual.found THEN manual
    ELSE LET generated == find_generated_transcript(request, language) IN
         IF generated.found THEN generated
         ELSE FallbackTranscript(request, language)

\* the fetched entries of a transcript: start times in seconds, and texts
\* that tell which transcript they come from
Fetch(transcript) ==
    << [start |-> 5, text |-> <<transcript.language_code, transcript.translated_from>>],
       [start |-> 75, text |-> <<transcript.language_code, transcript.translated_from>>] >>

\* lines 429-433: "[MM:SS] text"
FormatEntry(entry) ==
    [minutes |-> entry.start \div 60, seconds |-> entry.start % 60, text |-> entry.text]

get_transcript(request) ==
    LET language == IF request.language = "absent" THEN "en" ELSE request.language IN
    IF ~request.videoId THEN Return(400, [error |-> "No video ID provided"])
    ELSE IF request.listFails THEN Return(400, [error |-> "list_transcripts"])
    ELSE LET transcript == SelectTranscript(request, language) IN
         IF ~transcript.found THEN Return(400, [error |-> "no transcript"])
         ELSE IF request.fetchFails THEN Return(400, [error |-> "fetch"])
         ELSE Return(200,
                [transcript |-> [i \in 1..Len(Fetch(transcript)) |->
                                    FormatEntry(Fetch(transcript)[i])],
                 language |-> transcript.language,
                 isGenerated |-> transcript.is_generated])

TranscriptRequest ==
    /\ resp = NoResp
    /\ resp' = FlaskResponse("get-transcript", get_transcript(req))
    /\ UNCHANGED <<serverVars, req>>

InitTranscript ==
    /\ ServerIdle
    /\ req \in [videoId : BOOLEAN, language : Languages \cup {"absent"},
                listFails : BOOLEAN, manual : SUBSET Languages,
                generated : SUBSET Languages,
                translation_languages : {{}, {"en"}, Languages},
                fetchFails : BOOLEAN]
    /\ resp = NoResp

SpecTranscript == InitTranscript /\ [][TranscriptRequest]_vars

Requested == IF req.language = "absent" THEN "en" ELSE req.language

\* the three steps of the claim, as facts about what the collaborator holds
ManualStep == Requested \in req.manual
GeneratedStep == Requested \in req.generated
AuxiliaryStep ==
    "hi" \in req.generated /\ (Requested = "hi" \/ Requested \in req.translation_languages)

\* what the answer must carry when the given step is the first to succeed
AnswerFrom(step) ==
    /\ resp.code = 200
    /\ resp.body.language = LanguageName(Requested)
    /\ resp.body.isGenerated = (step # "manual")
    /\ \A i \in 1..Len(resp.body.transcript) :
        resp.body.transcript[i].text =
            <<Requested, IF step = "auxiliary" /\ Requested # "hi" THEN "hi" ELSE "none">>

TranscriptAnswered == resp.route = "get-transcript"

----------------------------------------------------------------------------
(* /summarize.  The collaborator's error texts are sequences of characters, *)
(* so that str.lower() and the substring test are computed as Python does.  *)

LowerChar(c) ==
    CASE c = "A" -> "a"
      [] c = "B" -> "b"
      [] c = "C" -> "c"
      [] c = "D" -> "d"
      [] c = "E" -> "e"
      [] c = "F" -> "f"
      [] c = "G" -> "g"
      [] c = "H" -> "h"
      [] c = "I" -> "i"
      [] c = "J" -> "j"
      [] c = "K" -> "k"
      [] c = "L" -> "l"
      [] c = "M" -> "m"
      [] c = "N" -> "n"
      [] c = "O" -> "o"
      [] c = "P" -> "p"
      [] c = "Q" -> "q"
      [] c = "R" -> "r"
      [] c = "S" -> "s"
      [] c = "T" -> "t"
      [] c = "U" -> "u"
      [] c = "V" -> "v"
      [] c = "W" -> "w"
      [] c = "X" -> "x"
      [] c = "Y" -> "y"
      [] c = "Z" -> "z"
      [] OTHER -> c

\* str.lower()
Lower(text) == [i \in 1..Len(text) |-> LowerChar(text[i])]

\* needle in text
Contains(text, needle) ==
    \E i \in 1..(Len(text) - Len(needle) + 1) :
        SubSeq(text, i, i + Len(needle) - 1) = needle

\* "API key not valid", the literal of line 481
InvalidKeyNeedle ==
    << "A", "P", "I", " ", "k", "e", "y", " ", "n", "o", "t", " ", "v", "a",
       "l", "i", "d" >>

\* the collaborator's answer to a rejected key
MsgKeyNotValid ==
    << "4", "0", "0", " ", "A", "P", "I", " ", "k", "e", "y", " ", "n", "o",
       "t", " ", "v", "a", "l", "i", "d", ".", " ", "P", "l", "e", "a", "s",
       "e", " ", "p", "a", "s", "s", " ", "a", " ", "v", "a", "l", "i", "d",
       " ", "A", "P", "I", " ", "k", "e", "y", "." >>

MsgKeyNotValidLower ==
    << "a", "p", "i", " ", "k", "e", "y", " ", "n", "o", "t", " ", "v", "a",
       "l", "i", "d" >>

MsgQuota ==
    << "4", "2", "9", " ", "Q", "u", "o", "t", "a", " ", "e", "x", "c", "e",
       "e", "d", "e", "d" >>

\* str() of the exception line 474 raises
MsgBlocked ==
    << "C", "o", "n", "t", "e", "n", "t", " ", "b", "l", "o", "c", "k", "e",
       "d", ":", " ", "S", "A", "F", "E", "T", "Y" >>

\* str() of the ValueError of response.text on an answer without text
MsgNoText ==
    << "I", "n", "v", "a", "l", "i", "d", " ", "o", "p", "e", "r", "a", "t",
       "i", "o", "n", ":", " ", "r", "e", "s", "p", "o", "n", "s", "e", ".",
       "t", "e", "x", "t" >>

GeminiErrors == {MsgKeyNotValid, MsgKeyNotValidLower, MsgQuota}

\* what generate_content does with the request: kind "ok" answers, "blocked"
\* answers with a block_reason, "notext" answers without text, "error" raises
GeminiOutcomes ==
    [kind : {"ok", "blocked", "notext"}, msg : {<<>>}]
    \cup [kind : {"error"}, msg : GeminiErrors]

\* "API key not valid" in error_msg.lower()
IsInvalidKeyError(error_msg) == Contains(Lower(error_msg), InvalidKeyNeedle)

\* lines 479-491
GeminiErrorResponse(error_msg) ==
    IF IsInvalidKeyError(error_msg)
    THEN Return(401, [error |-> <<"Invalid API key", ". Please check your API key and try again.">>,
                      details |-> error_msg])
    ELSE Return(500, [error |-> <<"Failed to generate summary", ". Please try again later.">>,
                      details |-> error_msg])

summarize_text(request) ==
    IF request.json = "null" THEN Return(400, [error |-> <<"AttributeError">>])
    ELSE IF request.text \in {"absent", ""} THEN Return(400, [error |-> <<"No text provided">>])
    ELSE IF request.api_key \in {"absent", ""} THEN Return(401, [error |-> <<"No API key provided">>])
    ELSE CASE request.gemini.kind = "error" -> GeminiErrorResponse(request.gemini.msg)
           [] request.gemini.kind = "blocked" -> GeminiErrorResponse(MsgBlocked)
           [] request.gemini.kind = "notext" -> GeminiErrorResponse(MsgNoText)
           [] OTHER -> Return(200, [summary |-> <<"summary">>])

SummarizeRequest ==
    /\ resp = NoResp
    /\ resp' = FlaskResponse("summarize", summarize_text(req))
    /\ UNCHANGED <<serverVars, req>>

InitSummarize ==
    /\ ServerIdle
    /\ req \in [json : {"null", "object"}, text : {"absent", "", "hello"},
                api_key : {"absent", "", "key"}, gemini : GeminiOutcomes]
    /\ resp = NoResp

SpecSummarize == InitSummarize /\ [][SummarizeRequest]_vars

TextEmpty == req.json = "object" /\ req.text \in {"absent", ""}
TextGiven == req.json = "object" /\ req.text = "hello"
KeyMissing == req.api_key \in {"absent", ""}

\* the collaborator rejects the key with its "API key not valid" error
KeyRejected ==
    req.gemini.kind = "error" /\ Contains(req.gemini.msg, InvalidKeyNeedle)

\* C5: /summarize answers 400 for an empty text, 401 for a text without key,
\* 401 with an "Invalid API key" message when the collaborator rejects the
\* key with "API key not valid", and 500 for every other collaborator error.
C5_SummarizeStatusCodes ==
    resp.route = "summarize" =>
        /\ TextEmpty => resp.code = 400
        /\ (TextGiven /\ KeyMissing) => resp.code = 401
        /\ (TextGiven /\ ~KeyMissing /\ KeyRejected) =>
            (resp.code = 401 /\ resp.body.error[1] = "Invalid API key")
        /\ (TextGiven /\ ~KeyMissing /\ req.gemini.kind # "ok" /\ ~KeyRejected) =>
            resp.code = 500

----------------------------------------------------------------------------
(* Status and percentage of the progress record *)

\* C11: in every reachable state of the progress record, status "finished"
\* comes with progress 100 and status "cancelled" with progress 0.
C11_StatusMatchesProgress ==
    /\ status = "finished" => progress = 100
    /\ status = "cancelled" => progress = 0

====
